---- MODULE Spec2Model ----
(***************************************************************************)
(* Model of the screen-share object detection page of the extension:       *)
(*   chrome-extension/detection/detection.js  (pipeline, event handlers)   *)
(*   chrome-extension/detection/detect.js     (scheduler, cycle, tracker)  *)
(*   detection/ui.js    (src/unnamed/part_001: box registry, buttons)      *)
(*   detection/model.js (src/unnamed/part_002: model handle)               *)
(*                                                                         *)
(* JavaScript runs one task at a time.  Every action below is one task:    *)
(* an event handler, or the part of an async function between two awaits.  *)
(* Coordinates are integers in thousandths of a model pixel, times are     *)
(* integers in milliseconds, and the scheduler's interval is an exact      *)
(* fraction <<numerator, denominator>>.                                    *)
(***************************************************************************)
EXTENDS Integers, Sequences, FiniteSets, TLC

(***************************************************************************)
(* Program constants                                                       *)
(***************************************************************************)
DETECTION_INTERVAL == 200
MIN_INTERVAL == 0
MAX_INTERVAL == 500
MAX_SAMPLES == 10
ADAPTIVE_MIN_SAMPLES == 5
MATCH_THRESHOLD == 150
ID_TIME_MODULUS == 1000
modelWidth == 640
modelHeight == 640
confidenceThreshold == 40
iouThreshold == 45
maxDetections == 100

(***************************************************************************)
(* Bounds of the model                                                     *)
(***************************************************************************)
FramePeriod == 100
MaxFrames == 4
MaxRaf == 2
MaxInflight == 2
MaxDet == 2
MaxTracks == 1
MaxRecorded == 11
MaxTrackerSteps == 3
MaxCandidates == 3
MaxPrevious == 3
MaxDomFrames == 7

(***************************************************************************)
(* State                                                                   *)
(***************************************************************************)
VARIABLES
  modelLoaded,             \* model.js: model handle is set
  video,                   \* "none" | "loading" (0x0) | "ready" (non-zero size)
  liveTracks,              \* shared streams whose video track has not ended
  startDisabled,           \* #start.disabled
  stopDisabled,            \* #stop.disabled
  errorMessage,            \* #errorMessage while displayed, "none" when hidden
  hidden,                  \* document.hidden
  isDetectionRunning,
  lastDetectionTime,
  previousDetections,
  wasRunningBeforeHidden,
  boxElements,             \* ui.js registry: the set of its keys
  frameTimings,            \* detect.js timing window
  now,                     \* timestamp of the current animation frame (ms)
  rafPending,              \* detectionLoop callbacks requested for the next frame
  batch,                   \* callbacks of the current frame still to run
  inflight,                \* suspended processFrame calls, in start order
  lastEvent,               \* history: the task that ran last ("other": one no property names)
  lastStart,               \* history: timestamp of the last cycle start, -1 if none
  stoppedSinceStart,       \* history: stopDetection ran after the last start
  failedSinceStart,        \* history: the loop's catch ran after the last start
  recorded,                \* history: every duration given to recordFrameTiming
  assignedIds,             \* history: every id updateDetectionBoxes has given out
  retiredIds,              \* history: ids of the session that a later cycle's output lacked
  idsBeforeStop,           \* history: the ids given out before the last stopDetection
  idsBeforeFailure,        \* history: the ids tracked when the session's last cycle failed in post-processing
  frameShape,              \* processFrame: [h, w] of the captured frame
  paddingInfo,             \* processFrame: what the preprocessing computed for frameShape
  probe,                   \* a point of the frame carried through the coordinate mapping
  anchors,                 \* processFrame: the rows of the model output (cx, cy, w, h, scores)
  candidates,              \* processFrame: decoded anchors (box, score, class)
  nmsDetections,           \* processFrame: the detections formatted from candidates
  keyword,                 \* detection.js: the search keyword, a sequence of characters
  detectionStats,          \* #detectionStats: the counts displayed, NoStats when absent
  matchCall,               \* findMatchingDetection: the arguments of a call
  matchResult,             \* findMatchingDetection: how that call ended
  scopeStack,              \* tf.engine(): the open memory scopes, innermost last
  lastApplied,             \* history: the detections of the last applied cycle, <<>> after a reset
  appliedScope,            \* history: start timestamp of the last applied cycle, -1 after a reset
  boxElementOf,            \* ui.js registry: the element registered under each key
  boxesChildren,           \* #boxes: the box elements attached to the container
  timeouts                 \* pending setTimeout callbacks that detach elements

vars == <<modelLoaded, video, liveTracks, startDisabled, stopDisabled,
          errorMessage, hidden, isDetectionRunning, lastDetectionTime,
          previousDetections, wasRunningBeforeHidden, boxElements,
          frameTimings, now, rafPending, batch, inflight, lastEvent,
          lastStart, stoppedSinceStart, failedSinceStart, recorded,
          assignedIds, retiredIds, idsBeforeStop, idsBeforeFailure, frameShape,
          paddingInfo,
          probe, anchors, candidates, nmsDetections, keyword, detectionStats,
          matchCall, matchResult, scopeStack, lastApplied,
          appliedScope, boxElementOf, boxesChildren, timeouts>>

pageVars == <<modelLoaded, video, liveTracks, startDisabled, stopDisabled,
              errorMessage, hidden>>
pipeVars == <<isDetectionRunning, lastDetectionTime, previousDetections,
              wasRunningBeforeHidden, boxElements, detectionStats,
              lastApplied, appliedScope>>
loopVars == <<now, rafPending, batch, inflight, scopeStack>>
histVars == <<lastStart, stoppedSinceStart, failedSinceStart>>
timingVars == <<frameTimings, recorded>>
trackHist == <<assignedIds, retiredIds, idsBeforeStop, idsBeforeFailure>>
mapVars == <<frameShape, paddingInfo, probe>>
nmsVars == <<anchors, candidates, nmsDetections>>
matchVars == <<matchCall, matchResult>>
funVars == <<mapVars, nmsVars, keyword, matchVars>>
\* the elements of the overlay; only SpecDom follows them
domVars == <<boxElementOf, boxesChildren, timeouts>>

(***************************************************************************)
(* Arithmetic helpers                                                      *)
(***************************************************************************)
Abs(x) == IF x < 0 THEN -x ELSE x
Min(a, b) == IF a < b THEN a ELSE b
Max(a, b) == IF a > b THEN a ELSE b

RECURSIVE SumSeq(_)
SumSeq(s) == IF s = <<>> THEN 0 ELSE Head(s) + SumSeq(Tail(s))

\* Fractions <<n, d>> with d > 0
RatLess(a, b) == a[1] * b[2] < b[1] * a[2]
RatEq(a, b) == a[1] * b[2] = b[1] * a[2]
RatMin(a, b) == IF RatLess(b, a) THEN b ELSE a
RatMax(a, b) == IF RatLess(a, b) THEN b ELSE a

RECURSIVE Gcd(_, _)
Gcd(a, b) == IF b = 0 THEN a ELSE Gcd(b, a % b)
\* The fraction in lowest terms
RatNorm(r) == LET g == Gcd(Abs(r[1]), r[2]) IN <<r[1] \div g, r[2] \div g>>
RatAdd(a, b) == RatNorm(<<a[1] * b[2] + b[1] * a[2], a[2] * b[2]>>)
RatSub(a, b) == RatNorm(<<a[1] * b[2] - b[1] * a[2], a[2] * b[2]>>)
RatMul(a, b) == RatNorm(<<a[1] * b[1], a[2] * b[2]>>)
\* a / b for b > 0
RatDiv(a, b) == RatNorm(<<a[1] * b[2], a[2] * b[1]>>)
\* Math.round of a fraction: the nearest integer, halves upwards
JsRound(r) == (2 * r[1] + r[2]) \div (2 * r[2])
\* Math.floor of a fraction
JsFloor(r) == r[1] \div r[2]

(***************************************************************************)
(* detect.js: adaptive scheduler                                           *)
(***************************************************************************)
\* Variant: the adaptive value is returned without clamping
getDetectionIntervalUnclamped(timings) ==
  IF Len(timings) >= ADAPTIVE_MIN_SAMPLES
  THEN <<SumSeq(timings) * 12, Len(timings) * 10>>
  ELSE <<DETECTION_INTERVAL, 1>>

\* getDetectionInterval(), as a fraction of milliseconds
getDetectionInterval(timings) ==
  IF Len(timings) >= ADAPTIVE_MIN_SAMPLES
  THEN LET adaptiveInterval == <<SumSeq(timings) * 12, Len(timings) * 10>>
       IN RatMax(<<MIN_INTERVAL, 1>>, RatMin(<<MAX_INTERVAL, 1>>, adaptiveInterval))
  ELSE <<DETECTION_INTERVAL, 1>>

\* Variant: over capacity the newest sample is dropped (pop for shift)
recordFrameTimingDropNewest(timings, time) ==
  LET pushed == Append(timings, time)
  IN IF Len(pushed) > MAX_SAMPLES THEN SubSeq(pushed, 1, MAX_SAMPLES) ELSE pushed

\* recordFrameTiming(time): push, then shift when over capacity
recordFrameTiming(timings, time) ==
  LET pushed == Append(timings, time)
  IN IF Len(pushed) > MAX_SAMPLES THEN Tail(pushed) ELSE pushed

\* Variant: the throttle test with <= for <
ThrottledInclusive(timestamp, last, timings) ==
  ~RatLess(getDetectionInterval(timings), <<timestamp - last, 1>>)

\* detectionLoop's throttle test: timestamp - lastDetectionTime < getDetectionInterval()
Throttled(timestamp, last, timings) ==
  RatLess(<<timestamp - last, 1>>, getDetectionInterval(timings))

(***************************************************************************)
(* Detections a cycle can produce.  A detection is [class, box] with       *)
(* box = <<x1, y1, x2, y2>> in thousandths of a model pixel.               *)
(***************************************************************************)
BoxP == <<100000, 100000, 200000, 200000>>
BoxPnear == <<100100, 100040, 200100, 200040>>
BoxQ == <<400000, 300000, 500000, 400000>>
\* a small box in the top-left corner of BoxP (IoU 0.09)
BoxPinner == <<100000, 100000, 130000, 130000>>

Dets == { [class |-> 2, box |-> BoxP], [class |-> 2, box |-> BoxPnear],
          [class |-> 0, box |-> BoxP], [class |-> 2, box |-> BoxQ] }

Area(b) == Max(0, b[3] - b[1]) * Max(0, b[4] - b[2])
Intersection(a, b) ==
  Max(0, Min(a[3], b[3]) - Max(a[1], b[1])) * Max(0, Min(a[4], b[4]) - Max(a[2], b[2]))
\* IoU(a, b) >= percent / 100 (the IoU of an empty box is 0)
IouAtLeast(a, b, percent) ==
  /\ Area(a) > 0
  /\ Area(b) > 0
  /\ Intersection(a, b) * 100 >= percent * (Area(a) + Area(b) - Intersection(a, b))
\* A kept box suppresses another, on boxes in whole pixels: the threshold is
\* the value processFrame passes as nonMaxSuppressionAsync's fourth argument
Suppresses(a, b) == IouAtLeast(a, b, confidenceThreshold)
WholePixels(b) == [k \in 1..4 |-> b[k] \div 1000]

\* The lists nonMaxSuppressionAsync can leave: no kept box suppresses another
DetListsOf(dets) ==
  { l \in UNION { [1..n -> dets] : n \in 0..MaxDet } :
      \A i, j \in DOMAIN l : i < j => ~Suppresses(WholePixels(l[i].box), WholePixels(l[j].box)) }
DetLists == DetListsOf(Dets)
\* The same with a detection nested in the corner of another
TrackerDets == Dets \cup { [class |-> 2, box |-> BoxPinner] }
TrackerDetLists == DetListsOf(TrackerDets)
\* the detections of the cycles of SpecDom: two objects that share a class and
\* a top-left corner, and one of another class
DomDets == { [class |-> 2, box |-> BoxP], [class |-> 2, box |-> BoxPinner],
             [class |-> 0, box |-> BoxP] }
DomDetLists == DetListsOf(DomDets)

(***************************************************************************)
(* detect.js: tracker                                                      *)
(***************************************************************************)
NoId == <<>>
NoMatch == [id |-> NoId]

\* Math.round(v * 100) for v given in thousandths
Round100(milli) == (milli + 5) \div 10

\* Variant: the position test alone decides, the class is not compared
findMatchingDetectionAnyClass(detection, prevs) ==
  IF Len(prevs) = 0 THEN NoMatch
  ELSE IF detection.id # NoId /\ \E i \in DOMAIN prevs : prevs[i].id = detection.id
  THEN prevs[CHOOSE i \in DOMAIN prevs :
               /\ prevs[i].id = detection.id
               /\ \A j \in 1..(i - 1) : prevs[j].id # detection.id]
  ELSE LET close(i) == /\ Abs(detection.box[1] - prevs[i].box[1]) < MATCH_THRESHOLD
                       /\ Abs(detection.box[2] - prevs[i].box[2]) < MATCH_THRESHOLD
       IN IF \E i \in DOMAIN prevs : close(i)
          THEN prevs[CHOOSE i \in DOMAIN prevs :
                       close(i) /\ \A j \in 1..(i - 1) : ~close(j)]
          ELSE NoMatch

\* findMatchingDetection(detection, previousDetections): the matching record
\* or NoMatch (null)
findMatchingDetection(detection, prevs) ==
  IF Len(prevs) = 0 THEN NoMatch
  ELSE IF detection.id # NoId /\ \E i \in DOMAIN prevs : prevs[i].id = detection.id
  THEN prevs[CHOOSE i \in DOMAIN prevs :
               /\ prevs[i].id = detection.id
               /\ \A j \in 1..(i - 1) : prevs[j].id # detection.id]
  ELSE LET close(i) == /\ prevs[i].class = detection.class
                       /\ Abs(detection.box[1] - prevs[i].box[1]) < MATCH_THRESHOLD
                       /\ Abs(detection.box[2] - prevs[i].box[2]) < MATCH_THRESHOLD
       IN IF \E i \in DOMAIN prevs : close(i)
          THEN prevs[CHOOSE i \in DOMAIN prevs :
                       close(i) /\ \A j \in 1..(i - 1) : ~close(j)]
          ELSE NoMatch

(***************************************************************************)
(* findMatchingDetection as exported, on any arguments.  An argument is    *)
(* tagged with its JavaScript type; a null entry of the list is NoMatch    *)
(* (null), a record without box has box = NoBox.                           *)
(***************************************************************************)
NoBox == <<>>
Undefined == [type |-> "undefined"]
NotAnArray == [type |-> "object"]
ArrayOf(items) == [type |-> "array", items |-> items]
ObjectOf(detection) ==
  [type |-> "object", id |-> detection.id, class |-> detection.class,
   box |-> detection.box]
Returned(value) == [computed |-> TRUE, raised |-> FALSE, value |-> value]
Raised == [computed |-> TRUE, raised |-> TRUE]

\* previousDetections.find(p => p.id === detection.id), from entry i on:
\* reading p.id of a null entry raises a TypeError
RECURSIVE findById(_, _, _)
findById(items, id, i) ==
  IF i > Len(items) THEN Returned(NoMatch)
  ELSE IF items[i] = NoMatch THEN Raised
  ELSE IF items[i].id = id THEN Returned(items[i])
  ELSE findById(items, id, i + 1)

\* Variant: the distance test admits the threshold itself
RECURSIVE positionScanInclusive(_, _, _)
positionScanInclusive(items, detection, i) ==
  IF i > Len(items) THEN Returned(NoMatch)
  ELSE IF items[i] = NoMatch THEN Raised
  ELSE IF /\ items[i].class = detection.class
          /\ items[i].box # NoBox
          /\ Abs(detection.box[1] - items[i].box[1]) <= MATCH_THRESHOLD
          /\ Abs(detection.box[2] - items[i].box[2]) <= MATCH_THRESHOLD
  THEN Returned(items[i])
  ELSE positionScanInclusive(items, detection, i + 1)

\* for (const prev of previousDetections) { ... }, from entry i on: reading
\* prev.class of a null entry raises a TypeError
RECURSIVE positionScan(_, _, _)
positionScan(items, detection, i) ==
  IF i > Len(items) THEN Returned(NoMatch)
  ELSE IF items[i] = NoMatch THEN Raised
  ELSE IF /\ items[i].class = detection.class
          /\ items[i].box # NoBox
          /\ Abs(detection.box[1] - items[i].box[1]) < MATCH_THRESHOLD
          /\ Abs(detection.box[2] - items[i].box[2]) < MATCH_THRESHOLD
  THEN Returned(items[i])
  ELSE positionScan(items, detection, i + 1)

findMatchingDetectionCall(detectionArg, previousArg) ==
  IF previousArg.type # "array" THEN Returned(NoMatch)
  ELSE IF Len(previousArg.items) = 0 THEN Returned(NoMatch)
  ELSE IF detectionArg.type = "undefined" THEN Returned(NoMatch)
  ELSE IF detectionArg.box = NoBox THEN Returned(NoMatch)
  ELSE LET exactMatch == IF detectionArg.id # NoId
                         THEN findById(previousArg.items, detectionArg.id, 1)
                         ELSE Returned(NoMatch)
       IN IF exactMatch.raised THEN Raised
          ELSE IF exactMatch.value # NoMatch THEN exactMatch
          ELSE positionScan(previousArg.items, detectionArg, 1)

\* The id synthesized for an unmatched detection (detection.js line 287)
NewId(detection, dateNow) ==
  <<detection.class, Round100(detection.box[1]), Round100(detection.box[2]),
    dateNow % ID_TIME_MODULUS>>

\* First loop of updateDetectionBoxes: every detection gets its id
AssignIds(detections, prevs, dateNow) ==
  [i \in DOMAIN detections |->
     LET detection == [id |-> NoId, class |-> detections[i].class,
                       box |-> detections[i].box]
         matchingDetection == findMatchingDetection(detection, prevs)
     IN [detection EXCEPT !.id = IF matchingDetection # NoMatch
                                 THEN matchingDetection.id
                                 ELSE NewId(detection, dateNow)]]

\* Variant: the removal loop is left out
UpdatedBoxElementsKeepingVanished(registry, withIds) ==
  registry \cup { withIds[i].id : i \in DOMAIN withIds }

\* Registry keys after the removal loop and the create/update loop
UpdatedBoxElements(registry, withIds) ==
  LET processedIds == { withIds[i].id : i \in DOMAIN withIds }
      kept == { id \in registry : id \in processedIds }
  IN kept \cup processedIds

\* previousDetections as stored at the end of updateDetectionBoxes
Snapshot(withIds) ==
  [i \in DOMAIN withIds |->
     [id |-> withIds[i].id, class |-> withIds[i].class, box |-> withIds[i].box]]

(***************************************************************************)
(* The elements of the overlay.  An element is named by a number; the      *)
(* registry maps a key to its element, #boxes has a set of children, and a *)
(* pending setTimeout callback is [kind, node, due].  The callback that    *)
(* createBoxElement schedules (10 ms) only restyles its element and is     *)
(* left out.                                                               *)
(***************************************************************************)
BOX_FADE_MS == 300
CONTAINER_CLEAR_MS == 500
NoNode == -1

\* boxElements = {}
NoElements == [id \in {} |-> NoNode]

\* document.createElement: an element nothing refers to yet
createElement(inUse) ==
  CHOOSE n \in 0..Cardinality(inUse) :
    n \notin inUse /\ \A m \in 0..(n - 1) : m \in inUse

\* createBoxElement: container.appendChild(boxElement); boxElements[id] = boxElement
createBoxElement(dom, id, pending) ==
  LET registered == { dom.registry[k] : k \in DOMAIN dom.registry }
      captured == { t.node : t \in pending } \ {NoNode}
      boxElement == createElement(registered \cup dom.children \cup captured)
  IN [registry |-> [k \in DOMAIN dom.registry \cup {id} |->
                      IF k = id THEN boxElement ELSE dom.registry[k]],
      children |-> dom.children \cup {boxElement}]

\* The removal loop of updateDetectionBoxes: the callbacks it schedules
fadeOutTimeouts(registry, processedIds, dateNow) ==
  { [kind |-> "removeChild", node |-> registry[id], due |-> dateNow + BOX_FADE_MS] :
      id \in DOMAIN registry \ processedIds }

\* The create/update loop of updateDetectionBoxes, detection by detection
RECURSIVE createOrUpdateBoxes(_, _, _, _)
createOrUpdateBoxes(dom, detections, prevs, pending) ==
  IF detections = <<>>
  THEN dom
  ELSE LET detection == Head(detections)
           found == { i \in DOMAIN prevs : prevs[i].id = detection.id }
           registered == detection.id \in DOMAIN dom.registry
           recreated ==
             IF registered
             THEN [registry |-> [k \in DOMAIN dom.registry \ {detection.id} |->
                                   dom.registry[k]],
                   children |-> dom.children \ {dom.registry[detection.id]}]
             ELSE dom
           after ==
             IF found = {} \/ prevs[CHOOSE i \in found : \A j \in found : i <= j].class # detection.class
             THEN createBoxElement(recreated, detection.id, pending)
             ELSE IF registered
                  THEN dom
                  ELSE createBoxElement(dom, detection.id, pending)
       IN createOrUpdateBoxes(after, Tail(detections), prevs, pending)

\* What updateDetectionBoxes does to the elements
updateBoxNodes(detections) ==
  LET withIds == AssignIds(detections, previousDetections, now)
      processedIds == { withIds[i].id : i \in DOMAIN withIds }
      pending == timeouts \cup fadeOutTimeouts(boxElementOf, processedIds, now)
      kept == [id \in DOMAIN boxElementOf \cap processedIds |-> boxElementOf[id]]
      dom == createOrUpdateBoxes([registry |-> kept, children |-> boxesChildren],
                                 withIds, previousDetections, pending)
  IN /\ timeouts' = pending
     /\ boxElementOf' = dom.registry
     /\ boxesChildren' = dom.children

\* What startDetection does to the elements: resetBoxElements() and
\* boxesContainer.innerHTML = ""
startBoxNodes ==
  /\ boxElementOf' = NoElements
  /\ boxesChildren' = {}
  /\ UNCHANGED timeouts

\* What stopDetection does to the elements: the container is cleared by a
\* callback, the registry is replaced at once
stopBoxNodes ==
  /\ timeouts' = timeouts \cup { [kind |-> "clearContainer", node |-> NoNode,
                                   due |-> now + CONTAINER_CLEAR_MS] }
  /\ boxElementOf' = NoElements
  /\ UNCHANGED boxesChildren

\* A pending callback runs
runTimeout(t) ==
  /\ timeouts' = timeouts \ {t}
  /\ boxesChildren' = IF t.kind = "clearContainer"
                      THEN {}
                      ELSE boxesChildren \ {t.node}
  /\ UNCHANGED boxElementOf

(***************************************************************************)
(* Strings are sequences of one-character strings                          *)
(***************************************************************************)
UpperCase == <<"A", "B", "C", "D", "E", "F", "G", "H", "I", "J", "K", "L", "M",
               "N", "O", "P", "Q", "R", "S", "T", "U", "V", "W", "X", "Y", "Z">>
LowerCase == <<"a", "b", "c", "d", "e", "f", "g", "h", "i", "j", "k", "l", "m",
               "n", "o", "p", "q", "r", "s", "t", "u", "v", "w", "x", "y", "z">>
toLowerCase(str) ==
  [i \in DOMAIN str |->
     IF \E k \in DOMAIN UpperCase : UpperCase[k] = str[i]
     THEN LowerCase[CHOOSE k \in DOMAIN UpperCase : UpperCase[k] = str[i]]
     ELSE str[i]]
\* str.includes(part)
includes(str, part) ==
  \E at \in 0..(Len(str) - Len(part)) : SubSeq(str, at + 1, at + Len(part)) = part

\* classNames[classId] || `Unknown (${classId})`: the names of the metadata
\* file for the classes the model's detections have
classNames ==
  [classId \in {0, 2} |-> IF classId = 0 THEN <<"P", "e", "r", "s", "o", "n">>
                          ELSE <<"c", "a", "r">>]
className(classId) ==
  IF classId \in DOMAIN classNames THEN classNames[classId]
  ELSE <<"U", "n", "k", "n", "o", "w", "n">>

\* Variant: the keyword is not tested for being empty
isKeywordMatchOfAnyKeyword(detection, word) ==
  includes(toLowerCase(className(detection.class)), toLowerCase(word))

\* keyword && detection.className.toLowerCase().includes(keyword.toLowerCase())
isKeywordMatch(detection, word) ==
  /\ word # <<>>
  /\ includes(toLowerCase(className(detection.class)), toLowerCase(word))

\* the counter the first loop of updateDetectionBoxes increments
RECURSIVE keywordMatchCount(_, _)
keywordMatchCount(detections, word) ==
  IF detections = <<>> THEN 0
  ELSE (IF isKeywordMatch(Head(detections), word) THEN 1 ELSE 0)
       + keywordMatchCount(Tail(detections), word)

(***************************************************************************)
(* ui.js: the statistics display                                           *)
(***************************************************************************)
NoStats == [shown |-> FALSE]
\* The counts handed over; the keyword line is written only for a non-empty
\* keyword
updateDetectionStats(totalCount, keywordCount, word) ==
  [shown |-> TRUE, totalCount |-> totalCount, keywordCount |-> keywordCount,
   keywordLine |-> word # <<>>]

(***************************************************************************)
(* ui.js: updateButtonState(isDetecting, hasVideo)                         *)
(***************************************************************************)
StartDisabledFor(isDetecting, hasVideo) == isDetecting \/ ~hasVideo
StopDisabledFor(isDetecting, hasVideo) == ~isDetecting

(***************************************************************************)
(* Initial state: the page after DOMContentLoaded                          *)
(***************************************************************************)
NoFrame == <<0, 0>>
NotComputed == [computed |-> FALSE]

PageInit ==
  /\ modelLoaded = FALSE
  /\ video = "none"
  /\ liveTracks = 0
  /\ startDisabled = StartDisabledFor(FALSE, FALSE)
  /\ stopDisabled = StopDisabledFor(FALSE, FALSE)
  /\ errorMessage = "none"
  /\ hidden = FALSE
  /\ isDetectionRunning = FALSE
  /\ lastDetectionTime = 0
  /\ previousDetections = <<>>
  /\ wasRunningBeforeHidden = FALSE
  /\ boxElements = {}
  /\ frameTimings = <<>>
  /\ now = 0
  /\ rafPending = 0
  /\ batch = 0
  /\ inflight = <<>>
  /\ scopeStack = <<>>
  /\ lastEvent = "init"
  /\ lastStart = -1
  /\ stoppedSinceStart = FALSE
  /\ failedSinceStart = FALSE
  /\ recorded = <<>>
  /\ assignedIds = {}
  /\ retiredIds = {}
  /\ idsBeforeStop = {}
  /\ idsBeforeFailure = {}
  /\ keyword = <<>>
  /\ detectionStats = NoStats
  /\ lastApplied = <<>>
  /\ appliedScope = -1
  /\ boxElementOf = NoElements
  /\ boxesChildren = {}
  /\ timeouts = {}
  /\ matchResult = NotComputed

\* No frame has been captured and no cycle has run
Init ==
  /\ PageInit
  /\ matchCall = NotComputed
  /\ frameShape = NoFrame
  /\ paddingInfo = NotComputed
  /\ probe = NotComputed
  /\ anchors = <<>>
  /\ candidates = <<>>
  /\ nmsDetections = NotComputed

\* No handler runs in the middle of a frame's run of callbacks
BetweenTasks == batch = 0

(***************************************************************************)
(* detection.js: page set-up and screen capture                            *)
(***************************************************************************)
\* loadModel() resolves: the model handle is set
LoadModel ==
  /\ BetweenTasks
  /\ ~modelLoaded
  /\ modelLoaded' = TRUE
  /\ lastEvent' = "other"
  /\ UNCHANGED <<video, liveTracks, startDisabled, stopDisabled, errorMessage, hidden>>
  /\ UNCHANGED <<pipeVars, loopVars, histVars, timingVars, funVars, trackHist, domVars>>

\* startScreenCapture(): getDisplayMedia resolves and the stream becomes the
\* video's source (its size is 0x0 until the metadata is loaded), or rejects
StartScreenCapture(granted) ==
  /\ BetweenTasks
  /\ ~hidden
  /\ IF granted
     THEN /\ liveTracks < MaxTracks
          /\ video' = "loading"
          /\ liveTracks' = liveTracks + 1
          /\ errorMessage' = errorMessage
          /\ lastEvent' = "other"
     ELSE /\ errorMessage' = "share"
          /\ lastEvent' = "other"
          /\ UNCHANGED <<video, liveTracks>>
  /\ UNCHANGED <<modelLoaded, startDisabled, stopDisabled, hidden>>
  /\ UNCHANGED <<pipeVars, loopVars, histVars, timingVars, funVars, trackHist, domVars>>

\* videoElement.onloadedmetadata
LoadedMetadata ==
  /\ BetweenTasks
  /\ video = "loading"
  /\ video' = "ready"
  /\ startDisabled' = StartDisabledFor(FALSE, TRUE)
  /\ stopDisabled' = StopDisabledFor(FALSE, TRUE)
  /\ lastEvent' = "other"
  /\ UNCHANGED <<modelLoaded, liveTracks, errorMessage, hidden>>
  /\ UNCHANGED <<pipeVars, loopVars, histVars, timingVars, funVars, trackHist, domVars>>

(***************************************************************************)
(* detection.js: startDetection / stopDetection                            *)
(***************************************************************************)
\* Variant: only the presence of the video element is tested
videoElementPresent == TRUE

\* videoElement && videoWidth !== 0 && videoHeight !== 0
videoAvailable == video = "ready"

\* Variant: the records of the previous session are kept
startDetectionKeepsRecords ==
  IF ~modelLoaded
  THEN /\ errorMessage' = "modelNotLoaded"
       /\ lastEvent' = "startRejected"
       /\ UNCHANGED <<modelLoaded, video, liveTracks, startDisabled, stopDisabled, hidden>>
       /\ UNCHANGED <<pipeVars, loopVars, histVars, timingVars, funVars>>
  ELSE IF ~videoAvailable
  THEN /\ errorMessage' = "videoNotAvailable"
       /\ lastEvent' = "startRejected"
       /\ UNCHANGED <<modelLoaded, video, liveTracks, startDisabled, stopDisabled, hidden>>
       /\ UNCHANGED <<pipeVars, loopVars, histVars, timingVars, funVars>>
  ELSE /\ rafPending < MaxRaf
       /\ errorMessage' = "none"
       /\ startDisabled' = StartDisabledFor(TRUE, TRUE)
       /\ stopDisabled' = StopDisabledFor(TRUE, TRUE)
       /\ boxElements' = {}
       /\ previousDetections' = previousDetections
       /\ isDetectionRunning' = TRUE
       /\ lastDetectionTime' = 0
       /\ rafPending' = rafPending + 1
       /\ lastEvent' = "start"
       /\ stoppedSinceStart' = FALSE
       /\ failedSinceStart' = FALSE
       /\ UNCHANGED <<modelLoaded, video, liveTracks, hidden, wasRunningBeforeHidden>>
       /\ lastApplied' = <<>>
       /\ appliedScope' = -1
       /\ UNCHANGED <<now, batch, inflight, scopeStack, lastStart, timingVars, funVars, detectionStats>>

startDetection ==
  IF ~modelLoaded
  THEN /\ errorMessage' = "modelNotLoaded"
       /\ lastEvent' = "startRejected"
       /\ UNCHANGED <<modelLoaded, video, liveTracks, startDisabled, stopDisabled, hidden>>
       /\ UNCHANGED <<pipeVars, loopVars, histVars, timingVars, funVars>>
  ELSE IF ~videoAvailable
  THEN /\ errorMessage' = "videoNotAvailable"
       /\ lastEvent' = "startRejected"
       /\ UNCHANGED <<modelLoaded, video, liveTracks, startDisabled, stopDisabled, hidden>>
       /\ UNCHANGED <<pipeVars, loopVars, histVars, timingVars, funVars>>
  ELSE /\ rafPending < MaxRaf
       /\ errorMessage' = "none"
       /\ startDisabled' = StartDisabledFor(TRUE, TRUE)
       /\ stopDisabled' = StopDisabledFor(TRUE, TRUE)
       /\ boxElements' = {}
       /\ previousDetections' = <<>>
       /\ isDetectionRunning' = TRUE
       /\ lastDetectionTime' = 0
       /\ rafPending' = rafPending + 1
       /\ lastEvent' = "start"
       /\ stoppedSinceStart' = FALSE
       /\ failedSinceStart' = FALSE
       /\ UNCHANGED <<modelLoaded, video, liveTracks, hidden, wasRunningBeforeHidden>>
       /\ lastApplied' = <<>>
       /\ appliedScope' = -1
       /\ UNCHANGED <<now, batch, inflight, scopeStack, lastStart, timingVars, funVars, detectionStats>>

\* click on #start
StartClick ==
  /\ BetweenTasks
  /\ ~hidden
  /\ ~startDisabled
  /\ startDetection
  /\ UNCHANGED <<trackHist, domVars>>

stopDetection ==
  /\ isDetectionRunning' = FALSE
  /\ startDisabled' = StartDisabledFor(FALSE, TRUE)
  /\ stopDisabled' = StopDisabledFor(FALSE, TRUE)
  /\ boxElements' = {}
  /\ previousDetections' = <<>>
  /\ detectionStats' = NoStats
  /\ lastApplied' = <<>>
  /\ appliedScope' = -1
  /\ lastEvent' = "stop"
  /\ stoppedSinceStart' = TRUE
  /\ UNCHANGED <<modelLoaded, video, errorMessage, hidden>>
  /\ UNCHANGED <<lastDetectionTime, wasRunningBeforeHidden>>
  /\ UNCHANGED <<loopVars, lastStart, failedSinceStart, timingVars, funVars>>

\* click on #stop
StopClick ==
  /\ BetweenTasks
  /\ ~hidden
  /\ ~stopDisabled
  /\ liveTracks' = liveTracks
  /\ stopDetection
  /\ UNCHANGED <<trackHist, domVars>>

\* the shared track's onended: the user ended the screen share
TrackEnded ==
  /\ BetweenTasks
  /\ liveTracks > 0
  /\ liveTracks' = liveTracks - 1
  /\ stopDetection
  /\ UNCHANGED <<trackHist, domVars>>

(***************************************************************************)
(* detection.js: visibilitychange handler                                  *)
(***************************************************************************)
\* Variant: hiding the page records the flag but leaves the loop running
VisibilityChangeKeepsRunning ==
  /\ BetweenTasks
  /\ hidden' = ~hidden
  /\ IF hidden'
     THEN /\ wasRunningBeforeHidden' = isDetectionRunning
          /\ isDetectionRunning' = isDetectionRunning
          /\ lastEvent' = "hide"
          /\ UNCHANGED <<lastDetectionTime, rafPending>>
     ELSE IF wasRunningBeforeHidden
     THEN /\ rafPending < MaxRaf
          /\ isDetectionRunning' = TRUE
          /\ lastDetectionTime' = 0
          /\ rafPending' = rafPending + 1
          /\ lastEvent' = "resume"
          /\ UNCHANGED wasRunningBeforeHidden
     ELSE /\ lastEvent' = "other"
          /\ UNCHANGED <<isDetectionRunning, lastDetectionTime, rafPending,
                         wasRunningBeforeHidden>>
  /\ UNCHANGED <<modelLoaded, video, liveTracks, startDisabled, stopDisabled,
                 errorMessage>>
  /\ UNCHANGED <<previousDetections, boxElements, detectionStats, lastApplied,
                 appliedScope, now,
                 batch, inflight, scopeStack>>
  /\ UNCHANGED <<histVars, timingVars, funVars, trackHist, domVars>>

VisibilityChange ==
  /\ BetweenTasks
  /\ hidden' = ~hidden
  /\ IF hidden'
     THEN /\ wasRunningBeforeHidden' = isDetectionRunning
          /\ isDetectionRunning' = FALSE
          /\ lastEvent' = "hide"
          /\ UNCHANGED <<lastDetectionTime, rafPending>>
     ELSE IF wasRunningBeforeHidden
     THEN /\ rafPending < MaxRaf
          /\ isDetectionRunning' = TRUE
          /\ lastDetectionTime' = 0
          /\ rafPending' = rafPending + 1
          /\ lastEvent' = "resume"
          /\ UNCHANGED wasRunningBeforeHidden
     ELSE /\ lastEvent' = "other"
          /\ UNCHANGED <<isDetectionRunning, lastDetectionTime, rafPending,
                         wasRunningBeforeHidden>>
  /\ UNCHANGED <<modelLoaded, video, liveTracks, startDisabled, stopDisabled,
                 errorMessage>>
  /\ UNCHANGED <<previousDetections, boxElements, detectionStats, lastApplied,
                 appliedScope, now,
                 batch, inflight, scopeStack>>
  /\ UNCHANGED <<histVars, timingVars, funVars, trackHist, domVars>>

(***************************************************************************)
(* detection.js: updateDetectionBoxes and the catch block of detectionLoop *)
(***************************************************************************)
\* Variant: the records of the cycle before that no detection continues stay
\* in the list, behind the new ones
updateDetectionBoxesKeepingUnmatched(detections) ==
  LET withIds == AssignIds(detections, previousDetections, now)
      unmatched == SelectSeq(previousDetections,
                             LAMBDA prev : \A i \in DOMAIN withIds : withIds[i].id # prev.id)
  IN /\ boxElements' = UpdatedBoxElements(boxElements, withIds)
     /\ detectionStats' = updateDetectionStats(Len(detections),
                                               keywordMatchCount(detections, keyword),
                                               keyword)
     /\ previousDetections' = Snapshot(withIds) \o unmatched
     /\ lastApplied' = detections

\* updateDetectionBoxes(detections, paddingInfo); Date.now() is the clock
updateDetectionBoxes(detections) ==
  LET withIds == AssignIds(detections, previousDetections, now)
  IN /\ boxElements' = UpdatedBoxElements(boxElements, withIds)
     /\ detectionStats' = updateDetectionStats(Len(detections),
                                               keywordMatchCount(detections, keyword),
                                               keyword)
     /\ previousDetections' = Snapshot(withIds)
     /\ lastApplied' = detections

\* catch (error) { ... } of detectionLoop
loopCatch ==
  /\ isDetectionRunning' = FALSE
  /\ errorMessage' = "detectionError"
  /\ startDisabled' = StartDisabledFor(FALSE, TRUE)
  /\ stopDisabled' = StopDisabledFor(FALSE, TRUE)
  /\ failedSinceStart' = TRUE

(***************************************************************************)
(* tf.engine(): the memory scopes processFrame opens and closes.  The      *)
(* engine keeps them in a stack; a scope is named by the timestamp of the  *)
(* cycle that opened it.                                                   *)
(***************************************************************************)
\* tf.engine().startScope()
startScope(stack, cycle) == Append(stack, cycle)
\* tf.engine().endScope(): the innermost open scope is closed
endScope(stack) == SubSeq(stack, 1, Len(stack) - 1)

(***************************************************************************)
(* Animation frames                                                        *)
(***************************************************************************)
\* The browser begins a frame: the callbacks requested so far will run with
\* the frame's timestamp; callbacks requested meanwhile wait for the next one.
\* Frames may also be delivered while the page is hidden (browsers usually
\* withhold them; the handlers do not rely on it).
BeginFrame ==
  /\ BetweenTasks
  /\ now + FramePeriod <= MaxFrames * FramePeriod
  /\ Len(inflight) < MaxInflight \/ rafPending = 0
  /\ now' = now + FramePeriod
  /\ batch' = rafPending
  /\ rafPending' = 0
  /\ lastEvent' = "other"
  /\ UNCHANGED <<pageVars, pipeVars, inflight, scopeStack, histVars, timingVars,
                 funVars, trackHist, domVars>>

\* detectionLoop(timestamp) up to its await.  preprocessOk: whether the
\* synchronous part of processFrame (fromPixels, resize, pad) succeeds.
detectionLoop(timestamp, preprocessOk) ==
  /\ batch > 0
  /\ batch' = batch - 1
  /\ IF ~isDetectionRunning
     THEN /\ preprocessOk
          /\ lastEvent' = "other"
          /\ UNCHANGED <<pageVars, pipeVars, rafPending, inflight, scopeStack, histVars>>
     ELSE /\ rafPending' = rafPending + 1
          /\ IF Throttled(timestamp, lastDetectionTime, frameTimings)
             THEN /\ preprocessOk
                  /\ lastEvent' = "skip"
                  /\ UNCHANGED <<pageVars, pipeVars, inflight, scopeStack, histVars>>
             ELSE /\ lastDetectionTime' = timestamp
                  /\ lastStart' = timestamp
                  /\ UNCHANGED <<previousDetections, wasRunningBeforeHidden,
                                 boxElements, detectionStats, lastApplied,
                                 appliedScope, stoppedSinceStart>>
                  /\ UNCHANGED <<modelLoaded, video, liveTracks, hidden>>
                  /\ IF preprocessOk
                     THEN /\ Len(inflight) < MaxInflight
                          /\ inflight' = Append(inflight, [pc |-> "execute",
                                                            scope |-> timestamp])
                          /\ scopeStack' = startScope(scopeStack, timestamp)
                          /\ lastEvent' = "cycleStart"
                          /\ UNCHANGED <<isDetectionRunning, errorMessage,
                                         startDisabled, stopDisabled,
                                         failedSinceStart>>
                     ELSE /\ loopCatch
                          /\ lastEvent' = "preprocessError"
                          /\ scopeStack' = endScope(startScope(scopeStack, timestamp))
                          /\ UNCHANGED inflight
  /\ UNCHANGED <<now, timingVars, funVars, trackHist, domVars>>

RunCallback == \E preprocessOk \in BOOLEAN : detectionLoop(now, preprocessOk)

(***************************************************************************)
(* detect.js: processFrame after its awaits, and the rest of detectionLoop *)
(***************************************************************************)
Remove(s, i) == [k \in 1..(Len(s) - 1) |-> IF k < i THEN s[k] ELSE s[k + 1]]

\* processFrame returned {processedDetections, paddingInfo}: detectionLoop
\* goes on after its await (the FPS counter it updates first is not state of
\* the pipeline and is left out)
loopApply(i, processedDetections, event) ==
  /\ inflight' = Remove(inflight, i)
  /\ scopeStack' = endScope(scopeStack)
  /\ updateDetectionBoxes(processedDetections)
  /\ appliedScope' = inflight[i].scope
  /\ lastEvent' = event
  /\ UNCHANGED <<pageVars, isDetectionRunning, lastDetectionTime,
                 wasRunningBeforeHidden, now, rafPending, batch, histVars,
                 timingVars, funVars, trackHist, domVars>>

\* processFrame threw: detectionLoop's catch runs
loopThrow(i, event) ==
  /\ inflight' = Remove(inflight, i)
  /\ scopeStack' = endScope(scopeStack)
  /\ loopCatch
  /\ lastEvent' = event
  /\ UNCHANGED <<modelLoaded, video, liveTracks, hidden, lastDetectionTime,
                 previousDetections, wasRunningBeforeHidden, boxElements,
                 detectionStats, lastApplied, appliedScope, now, rafPending, batch, lastStart, stoppedSinceStart, timingVars, funVars, trackHist, domVars>>

\* Variant: the failure leaves processFrame like an inference failure
postProcessFailureRethrown(i) == loopThrow(i, "postProcessError")

\* A failure while post-processing the model output: caught and logged inside
\* processFrame, which returns the detections formatted so far (none)
postProcessFailure(i) == loopApply(i, <<>>, "postProcessError")

\* await model.execute(inputTensor) is over
ExecuteSettles(i, outcome) ==
  /\ BetweenTasks
  /\ i \in DOMAIN inflight
  /\ inflight[i].pc = "execute"
  /\ CASE outcome = "inferenceError" -> loopThrow(i, "inferenceError")
       [] outcome = "decodeError" -> postProcessFailure(i)
       [] OTHER ->
            /\ inflight' = [inflight EXCEPT ![i].pc = "nms"]
            /\ lastEvent' = "other"
            /\ UNCHANGED <<pageVars, pipeVars, now, rafPending, batch, scopeStack, histVars,
                           timingVars, funVars, trackHist, domVars>>

\* await tf.image.nonMaxSuppressionAsync(...) is over
NmsSettles(i, ok, detections) ==
  /\ BetweenTasks
  /\ i \in DOMAIN inflight
  /\ inflight[i].pc = "nms"
  /\ IF ok
     THEN loopApply(i, detections, "applied")
     ELSE detections = <<>> /\ postProcessFailure(i)

ExecuteDone ==
  \E i \in 1..MaxInflight, outcome \in {"ok", "inferenceError", "decodeError"} :
    ExecuteSettles(i, outcome)

NmsDone ==
  \E i \in 1..MaxInflight, ok \in BOOLEAN, detections \in DetLists :
    NmsSettles(i, ok, detections)

(***************************************************************************)
(* detection.js: the keyword arrives from chrome.storage.local             *)
(***************************************************************************)
StoredKeywords == { <<>>, <<"C", "a", "r">>, <<"r">> }

\* callback of chrome.storage.local.get("objectKeyword", ...)
KeywordLoaded(objectKeyword) ==
  /\ BetweenTasks
  /\ keyword = <<>>
  /\ keyword' = IF objectKeyword # <<>> THEN toLowerCase(objectKeyword) ELSE keyword
  /\ lastEvent' = "other"
  /\ UNCHANGED <<pageVars, pipeVars, loopVars, histVars, timingVars, mapVars,
                 nmsVars, matchVars, trackHist, domVars>>

LoadKeyword == \E objectKeyword \in StoredKeywords : KeywordLoaded(objectKeyword)

(***************************************************************************)
(* The page                                                                *)
(***************************************************************************)
ShareScreen == \E granted \in BOOLEAN : StartScreenCapture(granted)

Next ==
  \/ LoadModel
  \/ ShareScreen
  \/ LoadedMetadata
  \/ StartClick
  \/ StopClick
  \/ TrackEnded
  \/ VisibilityChange
  \/ BeginFrame
  \/ RunCallback
  \/ ExecuteDone
  \/ NmsDone

Spec == Init /\ [][Next]_vars

\* The visible page with a keyword in the extension's storage, its stream
\* staying live
NextStats ==
  \/ LoadKeyword
  \/ LoadModel
  \/ ShareScreen
  \/ LoadedMetadata
  \/ StartClick
  \/ StopClick
  \/ BeginFrame
  \/ RunCallback
  \/ ExecuteDone
  \/ NmsDone

SpecStats == Init /\ [][NextStats]_vars

(***************************************************************************)
(* The scheduler's two functions on their own: durations are recorded in   *)
(* any order and number (the page itself never calls recordFrameTiming)    *)
(***************************************************************************)
Durations == {0, 100, 600}

RecordTiming ==
  \E time \in Durations :
    /\ Len(recorded) < MaxRecorded
    /\ frameTimings' = recordFrameTiming(frameTimings, time)
    /\ recorded' = Append(recorded, time)
    /\ UNCHANGED <<pageVars, pipeVars, loopVars, histVars, lastEvent>>
    /\ UNCHANGED <<funVars, trackHist, domVars>>

NextTiming == RecordTiming

SpecTiming == Init /\ [][NextTiming]_vars

(***************************************************************************)
(* detect.js / detection.js: letterboxing and the coordinate mapping, on    *)
(* their own.  The frame is drawn from FrameShapes; fractions are exact    *)
(* (the program computes them in double precision).                        *)
(***************************************************************************)
\* Variant: the top and left pads are rounded (Math.round for Math.floor)
PreprocessRoundedPad(h, w) ==
  LET scale == RatMin(<<modelWidth, w>>, <<modelHeight, h>>)
      newWidth == JsRound(<<w * scale[1], scale[2]>>)
      newHeight == JsRound(<<h * scale[1], scale[2]>>)
      padTop == JsRound(<<modelHeight - newHeight, 2>>)
      padLeft == JsRound(<<modelWidth - newWidth, 2>>)
      padBottom == modelHeight - newHeight - padTop
      padRight == modelWidth - newWidth - padLeft
  IN [computed |-> TRUE, scale |-> scale, newWidth |-> newWidth,
      newHeight |-> newHeight, padTop |-> padTop, padLeft |-> padLeft,
      padBottom |-> padBottom, padRight |-> padRight, originalShape |-> <<h, w>>]

\* The first tf.tidy of processFrame on a frame of shape [h, w]: paddingInfo
\* together with the locals the padding is made of
Preprocess(h, w) ==
  LET scale == RatMin(<<modelWidth, w>>, <<modelHeight, h>>)
      newWidth == JsRound(<<w * scale[1], scale[2]>>)
      newHeight == JsRound(<<h * scale[1], scale[2]>>)
      padTop == JsFloor(<<modelHeight - newHeight, 2>>)
      padLeft == JsFloor(<<modelWidth - newWidth, 2>>)
      padBottom == modelHeight - newHeight - padTop
      padRight == modelWidth - newWidth - padLeft
  IN [computed |-> TRUE, scale |-> scale, newWidth |-> newWidth,
      newHeight |-> newHeight, padTop |-> padTop, padLeft |-> padLeft,
      padBottom |-> padBottom, padRight |-> padRight, originalShape |-> <<h, w>>]

\* Where resizing by scale and padding put the frame's point (ox, oy)
Place(point, info) ==
  <<RatAdd(RatMul(<<point[1], 1>>, info.scale), <<info.padLeft, 1>>),
    RatAdd(RatMul(<<point[2], 1>>, info.scale), <<info.padTop, 1>>)>>

\* Variant: the two pads are exchanged
UnpadPadsExchanged(xy, info) ==
  <<RatDiv(RatSub(xy[1], <<info.padTop, 1>>), info.scale),
    RatDiv(RatSub(xy[2], <<info.padLeft, 1>>), info.scale)>>

\* unpadX = (x - padLeft) / scale, unpadY = (y - padTop) / scale
Unpad(xy, info) ==
  <<RatDiv(RatSub(xy[1], <<info.padLeft, 1>>), info.scale),
    RatDiv(RatSub(xy[2], <<info.padTop, 1>>), info.scale)>>

\* displayX = unpadX * displayRatioX, displayY = unpadY * displayRatioY
Display(xy, displayRatio) ==
  <<RatMul(xy[1], displayRatio[1]), RatMul(xy[2], displayRatio[2])>>

FrameSides == {1, 2, 3, 320, 480, 639, 640, 641, 720, 1080, 1280, 1920}
FrameShapes == { <<h, w>> : h \in FrameSides, w \in FrameSides }
PointsAlong(side) == {0, 1, side \div 3, side}
\* videoRect.width / videoWidth and videoRect.height / videoHeight
DisplayRatios == { <<1, 1>>, <<1, 2>>, <<3, 2>> }

InitPreprocess ==
  /\ PageInit
  /\ matchCall = NotComputed
  /\ frameShape \in FrameShapes
  /\ paddingInfo = NotComputed
  /\ probe = NotComputed
  /\ anchors = <<>>
  /\ candidates = <<>>
  /\ nmsDetections = NotComputed

\* processFrame preprocesses the captured frame
PreprocessFrame ==
  /\ ~paddingInfo.computed
  /\ paddingInfo' = Preprocess(frameShape[1], frameShape[2])
  /\ UNCHANGED <<pageVars, pipeVars, loopVars, histVars, lastEvent, timingVars, keyword, matchVars,
                 trackHist, domVars, frameShape, probe, nmsVars>>

\* A point of the frame is placed in model space and mapped back to the
\* frame and on to the screen as updateDetectionBoxes maps a box corner
MapPoint ==
  \E ox \in PointsAlong(frameShape[2]), oy \in PointsAlong(frameShape[1]),
     displayRatioX \in DisplayRatios, displayRatioY \in DisplayRatios :
    /\ paddingInfo.computed
    /\ ~probe.computed
    /\ LET xy == Place(<<ox, oy>>, paddingInfo)
           unpadded == Unpad(xy, paddingInfo)
       IN probe' = [computed |-> TRUE, point |-> <<ox, oy>>,
                    displayRatio |-> <<displayRatioX, displayRatioY>>,
                    model |-> xy, unpad |-> unpadded,
                    display |-> Display(unpadded, <<displayRatioX, displayRatioY>>)]
    /\ UNCHANGED <<pageVars, pipeVars, loopVars, histVars, lastEvent, timingVars, keyword, matchVars,
                   trackHist, domVars, frameShape, paddingInfo, nmsVars>>

NextPreprocess ==
  \/ PreprocessFrame
  \/ MapPoint

SpecPreprocess == InitPreprocess /\ [][NextPreprocess]_vars

(***************************************************************************)
(* detect.js: decoding of the model output, non-maximum suppression and    *)
(* the formatting of a cycle's detections, on their own.  An anchor is a   *)
(* row [cx, cy, w, h, scores] of the transposed output, in model pixels    *)
(* and hundredths; a candidate is [box, score, class] with box = <<y1, x1, *)
(* y2, x2>> in half pixels (so that w / 2 is exact).                       *)
(***************************************************************************)
RECURSIVE MaxOfSeq(_)
MaxOfSeq(row) ==
  IF Len(row) = 1 THEN row[1] ELSE Max(row[1], MaxOfSeq(Tail(row)))
\* argMax: the first index of the maximum, counted from 0
ArgMax(row) ==
  (CHOOSE k \in DOMAIN row :
     row[k] = MaxOfSeq(row) /\ \A j \in 1..(k - 1) : row[j] # MaxOfSeq(row)) - 1

\* Variant: cx and cy are taken for the top-left corner
DecodeCenterAsCorner(rows) ==
  [i \in DOMAIN rows |->
     LET x1 == 2 * rows[i].cx
         y1 == 2 * rows[i].cy
     IN [box |-> <<y1, x1, y1 + 2 * rows[i].h, x1 + 2 * rows[i].w>>,
         score |-> MaxOfSeq(rows[i].scores), class |-> ArgMax(rows[i].scores)]]

\* The second tf.tidy of processFrame: x1 = cx - w / 2, y1 = cy - h / 2, boxes
\* [y1, x1, y1 + h, x1 + w], maxScores and classIndices (in half pixels)
Decode(rows) ==
  [i \in DOMAIN rows |->
     LET x1 == 2 * rows[i].cx - rows[i].w
         y1 == 2 * rows[i].cy - rows[i].h
     IN [box |-> <<y1, x1, y1 + 2 * rows[i].h, x1 + 2 * rows[i].w>>,
         score |-> MaxOfSeq(rows[i].scores), class |-> ArgMax(rows[i].scores)]]

\* Greedy selection: the best remaining candidate (the earlier one among
\* equal scores) is kept unless it overlaps a kept one
RECURSIVE NmsGreedy(_, _, _, _, _)
NmsGreedy(cands, remaining, kept, maxOutputSize, iouPercent) ==
  IF remaining = {} \/ Len(kept) >= maxOutputSize
  THEN kept
  ELSE LET best == CHOOSE i \in remaining :
                     \A j \in remaining :
                       \/ cands[j].score < cands[i].score
                       \/ (cands[j].score = cands[i].score /\ i <= j)
           overlaps == \E k \in DOMAIN kept :
                         IouAtLeast(cands[best].box, cands[kept[k]].box, iouPercent)
       IN NmsGreedy(cands, remaining \ {best},
                    IF overlaps THEN kept ELSE Append(kept, best),
                    maxOutputSize, iouPercent)

\* tf.image.nonMaxSuppressionAsync(boxes, scores, maxOutputSize, iouThreshold,
\* scoreThreshold) of the TensorFlow.js library, with the parameters in the
\* library's order: the indices of the kept candidates, best score first
nonMaxSuppression(cands, maxOutputSize, iouThresholdArg, scoreThresholdArg) ==
  NmsGreedy(cands, { i \in DOMAIN cands : cands[i].score >= scoreThresholdArg },
            <<>>, maxOutputSize, iouThresholdArg)

\* Variant: the call names no threshold (the library then takes 0.5 for the
\* IoU and no lower limit for the score)
nmsWithoutThresholds(cands) == nonMaxSuppression(cands, maxDetections, 50, -1)

\* Variant: the call stops after its fourth argument (no limit for the score)
nmsWithoutFifthArgument(cands) ==
  nonMaxSuppression(cands, maxDetections, confidenceThreshold, -1)

\* nms = await tf.image.nonMaxSuppressionAsync(boxes, scores, 100,
\*                                             confidenceThreshold, iouThreshold)
nms(cands) ==
  nonMaxSuppression(cands, maxDetections, confidenceThreshold, iouThreshold)

\* Variant: the formatting loop runs from the last kept candidate to the first
FormatDetectionsBackwards(cands, kept) ==
  [k \in DOMAIN kept |->
     LET c == cands[kept[Len(kept) + 1 - k]]
     IN [box |-> <<c.box[2], c.box[1], c.box[4], c.box[3]>>,
         score |-> c.score, class |-> c.class]]

\* gather(nms) and the formatting loop: box becomes [x1, y1, x2, y2]
FormatDetections(cands, kept) ==
  [k \in DOMAIN kept |->
     LET c == cands[kept[k]]
     IN [box |-> <<c.box[2], c.box[1], c.box[4], c.box[3]>>,
         score |-> c.score, class |-> c.class]]

\* Rows of 20 x 20 pixels whose boxes overlap the first by 0.48, 0.43 and (a
\* 21 x 19 one) 0.25, and score rows over three classes
AnchorBoxes == { [cx |-> 10, cy |-> 10, w |-> 20, h |-> 20],
                 [cx |-> 17, cy |-> 10, w |-> 20, h |-> 20],
                 [cx |-> 18, cy |-> 10, w |-> 20, h |-> 20],
                 [cx |-> 22, cy |-> 10, w |-> 21, h |-> 19] }
ScoreRows == { <<82, 10, 10>>, <<10, 10, 82>>, <<60, 60, 10>>, <<39, 10, 39>>,
               <<10, 42, 10>> }
Anchors ==
  { [cx |-> b.cx, cy |-> b.cy, w |-> b.w, h |-> b.h, scores |-> row] :
      b \in AnchorBoxes, row \in ScoreRows }

InitNms ==
  /\ PageInit
  /\ matchCall = NotComputed
  /\ frameShape = NoFrame
  /\ paddingInfo = NotComputed
  /\ probe = NotComputed
  /\ \E n \in 0..MaxCandidates : anchors \in [1..n -> Anchors]
  /\ candidates = <<>>
  /\ nmsDetections = NotComputed

\* processFrame from the decoding of the model output to the end of the
\* formatting loop
PostProcess ==
  /\ ~nmsDetections.computed
  /\ candidates' = Decode(anchors)
  /\ nmsDetections' = [computed |-> TRUE,
                       nms |-> nms(candidates'),
                       detections |-> FormatDetections(candidates', nms(candidates'))]
  /\ UNCHANGED <<pageVars, pipeVars, loopVars, histVars, lastEvent, timingVars, keyword, matchVars,
                 trackHist, domVars, mapVars, anchors>>

NextNms == PostProcess

SpecNms == InitNms /\ [][NextNms]_vars

(***************************************************************************)
(* The tracker over a longer run: the results of the cycles of running     *)
(* sessions are applied one after another, the wall clock advancing        *)
(* between two of them, with stops and restarts.  The run begins in the    *)
(* state the first successful startDetection leaves.                       *)
(***************************************************************************)
TrackerStep == 5 * FramePeriod

IdsOf(dets) == { dets[i].id : i \in DOMAIN dets }

InitTracker ==
  /\ modelLoaded = TRUE
  /\ video = "ready"
  /\ liveTracks = 1
  /\ startDisabled = StartDisabledFor(TRUE, TRUE)
  /\ stopDisabled = StopDisabledFor(TRUE, TRUE)
  /\ errorMessage = "none"
  /\ hidden = FALSE
  /\ isDetectionRunning = TRUE
  /\ lastDetectionTime = 0
  /\ previousDetections = <<>>
  /\ wasRunningBeforeHidden = FALSE
  /\ boxElements = {}
  /\ frameTimings = <<>>
  /\ now = 0
  /\ rafPending = 1
  /\ batch = 0
  /\ inflight = <<>>
  /\ scopeStack = <<>>
  /\ lastEvent = "start"
  /\ lastStart = -1
  /\ stoppedSinceStart = FALSE
  /\ failedSinceStart = FALSE
  /\ recorded = <<>>
  /\ assignedIds = {}
  /\ retiredIds = {}
  /\ idsBeforeStop = {}
  /\ idsBeforeFailure = {}
  /\ frameShape = NoFrame
  /\ paddingInfo = NotComputed
  /\ probe = NotComputed
  /\ anchors = <<>>
  /\ candidates = <<>>
  /\ nmsDetections = NotComputed
  /\ keyword = <<>>
  /\ detectionStats = NoStats
  /\ lastApplied = <<>>
  /\ appliedScope = -1
  /\ boxElementOf = NoElements
  /\ boxesChildren = {}
  /\ timeouts = {}
  /\ matchCall = NotComputed
  /\ matchResult = NotComputed

\* Time passes
TrackerClock ==
  /\ now + TrackerStep <= MaxTrackerSteps * TrackerStep
  /\ now' = now + TrackerStep
  /\ lastEvent' = "clock"
  /\ UNCHANGED <<pageVars, pipeVars, rafPending, batch, inflight, scopeStack, histVars,
                 timingVars, funVars, trackHist, domVars>>

\* The result of the session's next cycle is applied (time has passed since
\* the task before)
TrackerCycle ==
  \E detections \in TrackerDetLists :
    /\ isDetectionRunning
    /\ lastEvent = "clock"
    /\ updateDetectionBoxes(detections)
    /\ assignedIds' = assignedIds \cup IdsOf(previousDetections')
    /\ retiredIds' = retiredIds \cup (IdsOf(previousDetections) \ IdsOf(previousDetections'))
    /\ idsBeforeFailure' = {}
    /\ lastEvent' = "applied"
    /\ UNCHANGED <<pageVars, isDetectionRunning, lastDetectionTime,
                   wasRunningBeforeHidden, loopVars, histVars, timingVars,
                   funVars, idsBeforeStop, appliedScope>>
    /\ UNCHANGED domVars

\* The session's next cycle fails in post-processing: processFrame returns
\* no detection and the result is applied
TrackerFailedCycle ==
  /\ isDetectionRunning
  /\ lastEvent = "clock"
  /\ updateDetectionBoxes(<<>>)
  /\ retiredIds' = retiredIds \cup IdsOf(previousDetections)
  /\ idsBeforeFailure' = IdsOf(previousDetections)
  /\ lastEvent' = "postProcessError"
  /\ UNCHANGED <<pageVars, isDetectionRunning, lastDetectionTime,
                 wasRunningBeforeHidden, loopVars, histVars, timingVars,
                 funVars, assignedIds, idsBeforeStop, appliedScope>>
  /\ UNCHANGED domVars

\* click on #stop
TrackerStop ==
  /\ ~stopDisabled
  /\ liveTracks' = liveTracks
  /\ stopDetection
  /\ idsBeforeStop' = assignedIds
  /\ idsBeforeFailure' = {}
  /\ UNCHANGED <<assignedIds, retiredIds>>
  /\ UNCHANGED domVars

\* click on #start: a new session
TrackerStart ==
  /\ ~startDisabled
  /\ startDetection
  /\ retiredIds' = {}
  /\ idsBeforeFailure' = {}
  /\ UNCHANGED <<assignedIds, idsBeforeStop>>
  /\ UNCHANGED domVars

NextTracker ==
  \/ TrackerClock
  \/ TrackerCycle
  \/ TrackerFailedCycle
  \/ TrackerStop
  \/ TrackerStart

SpecTracker == InitTracker /\ [][NextTracker]_vars

(***************************************************************************)
(* The overlay's elements over a run of sessions: the results of the       *)
(* cycles of running sessions are applied, with stops, restarts and the    *)
(* callbacks that stopDetection and updateDetectionBoxes leave behind.     *)
(* The run begins in the state the first successful startDetection leaves, *)
(* the clock advances frame by frame, and a callback that is due runs      *)
(* before the next frame.                                                  *)
(***************************************************************************)
\* The next frame
DomClock ==
  /\ now + FramePeriod <= MaxDomFrames * FramePeriod
  /\ \A t \in timeouts : t.due > now
  /\ now' = now + FramePeriod
  /\ lastEvent' = "clock"
  /\ UNCHANGED <<pageVars, pipeVars, rafPending, batch, inflight, scopeStack, histVars,
                 timingVars, funVars, trackHist, domVars>>

\* The result of the session's next cycle is applied
DomCycle ==
  \E detections \in DomDetLists :
    /\ isDetectionRunning
    /\ lastEvent = "clock"
    /\ updateDetectionBoxes(detections)
    /\ updateBoxNodes(detections)
    /\ lastEvent' = "applied"
    /\ UNCHANGED <<pageVars, isDetectionRunning, lastDetectionTime,
                   wasRunningBeforeHidden, loopVars, histVars, timingVars,
                   funVars, trackHist, appliedScope>>

\* click on #stop
DomStop ==
  /\ ~stopDisabled
  /\ liveTracks' = liveTracks
  /\ stopDetection
  /\ stopBoxNodes
  /\ UNCHANGED trackHist

\* click on #start: a new session
DomStart ==
  /\ ~startDisabled
  /\ startDetection
  /\ startBoxNodes
  /\ UNCHANGED trackHist

\* The callback that is due first runs
DomTimeout ==
  \E t \in timeouts :
    /\ t.due <= now
    /\ \A u \in timeouts : t.due <= u.due
    /\ runTimeout(t)
    /\ lastEvent' = "timeout"
    /\ UNCHANGED <<pageVars, pipeVars, loopVars, histVars, timingVars, funVars,
                   trackHist>>

NextDom ==
  \/ DomClock
  \/ DomCycle
  \/ DomStop
  \/ DomStart
  \/ DomTimeout

SpecDom == InitTracker /\ [][NextDom]_vars

(***************************************************************************)
(* detect.js: findMatchingDetection on its own.  The arguments of one call *)
(* are drawn from MatchDetections and MatchLists, which hold well-formed   *)
(* and malformed values.                                                   *)
(***************************************************************************)
Shifted(box, dx, dy) == <<box[1] + dx, box[2] + dy, box[3] + dx, box[4] + dy>>
MatchIds == { <<2, 10000, 10000, 0>>, <<2, 10015, 10000, 500>> }
MatchBoxes == { NoBox, Shifted(BoxP, 149, -149), Shifted(BoxP, 150, 0),
                Shifted(BoxP, 0, -150) }
MatchEntries ==
  {NoMatch} \cup { [id |-> id, class |-> class, box |-> box] :
                     id \in MatchIds, class \in {0, 2}, box \in MatchBoxes }
MatchDetections ==
  {Undefined} \cup { ObjectOf([id |-> id, class |-> 2, box |-> box]) :
                       id \in {NoId, <<2, 10000, 10000, 0>>}, box \in {BoxP, NoBox} }

InitMatch ==
  /\ PageInit
  /\ frameShape = NoFrame
  /\ paddingInfo = NotComputed
  /\ probe = NotComputed
  /\ anchors = <<>>
  /\ candidates = <<>>
  /\ nmsDetections = NotComputed
  /\ \E detectionArg \in MatchDetections :
       \/ \E previousArg \in {Undefined, NotAnArray} :
            matchCall = [computed |-> TRUE, detection |-> detectionArg,
                         previousDetections |-> previousArg]
       \/ \E n \in 0..MaxPrevious : \E items \in [1..n -> MatchEntries] :
            matchCall = [computed |-> TRUE, detection |-> detectionArg,
                         previousDetections |-> ArrayOf(items)]

\* One call of findMatchingDetection
MatchCall ==
  /\ ~matchResult.computed
  /\ matchResult' = findMatchingDetectionCall(matchCall.detection,
                                              matchCall.previousDetections)
  /\ UNCHANGED <<pageVars, pipeVars, loopVars, histVars, lastEvent, timingVars,
                 trackHist, domVars, mapVars, nmsVars, keyword, matchCall>>

NextMatch == MatchCall

SpecMatch == InitMatch /\ [][NextMatch]_vars

(***************************************************************************)
(* Properties                                                              *)
(***************************************************************************)
\* Steps of detectionLoop's synchronous part (only RunCallback lowers batch)
TickStep == batch' = batch - 1
CycleStartStep == TickStep /\ lastEvent' \in {"cycleStart", "preprocessError"}

\* C1: at most one detection cycle is in flight at any time: detectionLoop
\* never calls processFrame while an earlier call is still suspended.
C1_SingleFlight == Len(inflight) <= 1

\* C2: from a stopDetection until the next startDetection the results of no
\* cycle are applied: previousDetections and the box registry stay empty.
C2_StoppedCycleDiscarded ==
  stoppedSinceStart => (previousDetections = <<>> /\ boxElements = {})

\* C3: after stopDetection, isDetectionRunning stays false until startDetection
\* is invoked again, whatever visibility changes, ticks and completions follow.
C3_StoppedIsTerminal == stoppedSinceStart => ~isDetectionRunning

\* C4: after processFrame has thrown, isDetectionRunning stays false until an
\* explicit startDetection, whatever ticks, visibility changes or completions
\* follow.
C4_ErrorStopsDetection == failedSinceStart => ~isDetectionRunning

\* C5: a failure while post-processing the model output is not fatal: the
\* cycle ends without the loop's catch running, isDetectionRunning keeps its
\* value, no error is reported, and while running a detectionLoop callback is
\* still requested, so the next scheduled cycle is attempted.
C5_PostProcessFailureNotFatal ==
  [][(lastEvent' = "postProcessError" /\ Len(inflight') < Len(inflight)) =>
       /\ isDetectionRunning' = isDetectionRunning
       /\ errorMessage' = errorMessage
       /\ failedSinceStart' = failedSinceStart
       /\ startDisabled' = startDisabled /\ stopDisabled' = stopDisabled
       /\ (isDetectionRunning' => rafPending' + batch' >= 1)]_vars

C5_Witness ==
  /\ lastEvent = "postProcessError"
  /\ isDetectionRunning
  /\ ~failedSinceStart
  /\ rafPending >= 1

\* C6: every detection cycle that runs to completion has recorded its
\* processing duration in the timing window.
C6_CompletedCycleRecordsTiming == lastEvent = "applied" => Len(frameTimings) >= 1

C8_IntervalValue ==
  LET r == getDetectionInterval(frameTimings)
      n == Len(frameTimings)
      sum == SumSeq(frameTimings)
  IN /\ n < 5 => r = <<200, 1>>
     /\ n >= 5 =>
          /\ ~RatLess(r, <<0, 1>>)
          /\ ~RatLess(<<500, 1>>, r)
          /\ (0 <= 12 * sum /\ 12 * sum <= 500 * 10 * n) => RatEq(r, <<12 * sum, 10 * n>>)
          /\ 12 * sum > 500 * 10 * n => RatEq(r, <<500, 1>>)
          /\ 12 * sum < 0 => RatEq(r, <<0, 1>>)
     /\ frameTimings = <<100, 100, 100, 100, 100>> => RatEq(r, <<120, 1>>)

C8_Witness ==
  /\ frameTimings = <<100, 100, 100, 100, 100>>
  /\ RatEq(getDetectionInterval(frameTimings), <<120, 1>>)

\* C9: after any sequence of recordFrameTiming calls the window holds the most
\* recent min(n, 10) recorded durations, in recording order.
C9_WindowHoldsMostRecent ==
  LET n == Len(recorded)
      k == IF n < 10 THEN n ELSE 10
  IN /\ Len(frameTimings) = k
     /\ frameTimings = SubSeq(recorded, n - k + 1, n)

C9_Witness ==
  /\ Len(recorded) = 11
  /\ Len(frameTimings) = 10
  /\ recorded[1] # recorded[11]
  /\ frameTimings[10] = recorded[11]

\* C10: startDetection moves the pipeline to Running only when the model is
\* loaded and the video has a non-zero size; otherwise it reports an error,
\* requests no animation frame and leaves isDetectionRunning,
\* previousDetections, the box registry and lastDetectionTime unchanged.
C10_StartGuard ==
  [][lastEvent' \in {"start", "startRejected"} =>
       IF modelLoaded /\ video = "ready"
       THEN lastEvent' = "start" /\ isDetectionRunning'
       ELSE /\ lastEvent' = "startRejected"
            /\ errorMessage' \in {"modelNotLoaded", "videoNotAvailable"}
            /\ UNCHANGED <<isDetectionRunning, previousDetections, boxElements,
                           lastDetectionTime, rafPending, batch>>]_vars

C10_Witness ==
  /\ lastEvent = "startRejected"
  /\ modelLoaded
  /\ video = "loading"
  /\ errorMessage = "videoNotAvailable"

C12_HiddenHaltsScheduling ==
  [][/\ CycleStartStep => ~hidden
     /\ (TickStep /\ hidden) => rafPending' = rafPending
     /\ lastEvent' = "hide" =>
          /\ ~isDetectionRunning'
          /\ previousDetections' = previousDetections
          /\ frameTimings' = frameTimings]_vars

\* hidden while running, the records kept, and the pending callback has run
\* without requesting another frame
C12_Witness ==
  /\ hidden
  /\ wasRunningBeforeHidden
  /\ previousDetections # <<>>
  /\ now > 0
  /\ rafPending = 0
  /\ batch = 0

\* C13: on the resume the loop is rescheduled and the clock is reset so that
\* no unthrottled burst follows: cycle starts stay at least
\* getDetectionInterval() apart also relative to the last cycle started before
\* the pause, so right after the resume a tick that comes sooner than the
\* interval after that start is throttled.
C13_NoBurstAfterResume ==
  (lastEvent = "resume" /\ lastStart # -1) =>
    /\ isDetectionRunning
    /\ rafPending >= 1
    /\ \A timestamp \in now..(now + FramePeriod) :
         RatLess(<<timestamp - lastStart, 1>>, getDetectionInterval(frameTimings))
           => Throttled(timestamp, lastDetectionTime, frameTimings)

C15_RetiredIdNeverReturns == IdsOf(previousDetections) \cap retiredIds = {}

\* C16: stopping clears all prior ids: no id given out before a stopDetection
\* is given to a detection applied after that stop, in the same or in a later
\* session.
C16_StopClearsIds == IdsOf(previousDetections) \cap idsBeforeStop = {}

\* C17: for every frame of w x h pixels (w, h >= 1) and the 640 x 640 model:
\* scale = min(640 / w, 640 / h); newWidth = round(w * scale) and newHeight =
\* round(h * scale), both at most 640; padTop = floor((640 - newHeight) / 2)
\* and padLeft = floor((640 - newWidth) / 2); the four paddings are >= 0,
\* padTop + padBottom = 640 - newHeight and padLeft + padRight = 640 -
\* newWidth.  A 1280 x 720 frame gives scale 0.5, 640 x 360, padTop 140 and
\* padLeft 0.
C17_PreprocessArithmetic ==
  paddingInfo.computed =>
    LET h == frameShape[1]
        w == frameShape[2]
        n == paddingInfo.scale[1]
        d == paddingInfo.scale[2]
        newW == paddingInfo.newWidth
        newH == paddingInfo.newHeight
    IN /\ d > 0
       /\ n * w <= 640 * d /\ n * h <= 640 * d
       /\ (n * w = 640 * d \/ n * h = 640 * d)
       /\ (2 * newW - 1) * d <= 2 * w * n /\ 2 * w * n < (2 * newW + 1) * d
       /\ (2 * newH - 1) * d <= 2 * h * n /\ 2 * h * n < (2 * newH + 1) * d
       /\ newW <= 640 /\ newH <= 640
       /\ 2 * paddingInfo.padTop <= 640 - newH
       /\ 640 - newH <= 2 * paddingInfo.padTop + 1
       /\ 2 * paddingInfo.padLeft <= 640 - newW
       /\ 640 - newW <= 2 * paddingInfo.padLeft + 1
       /\ paddingInfo.padTop >= 0 /\ paddingInfo.padBottom >= 0
       /\ paddingInfo.padLeft >= 0 /\ paddingInfo.padRight >= 0
       /\ paddingInfo.padTop + paddingInfo.padBottom = 640 - newH
       /\ paddingInfo.padLeft + paddingInfo.padRight = 640 - newW
       /\ (w = 1280 /\ h = 720) =>
            /\ 2 * n = d
            /\ newW = 640 /\ newH = 360
            /\ paddingInfo.padTop = 140 /\ paddingInfo.padLeft = 0

C17_Witness ==
  /\ frameShape = <<720, 1280>>
  /\ paddingInfo.computed
  /\ paddingInfo.newHeight = 360
  /\ paddingInfo.padTop = 140
  /\ paddingInfo.padBottom = 140

\* C18: the coordinate round trip: a point (ox, oy) of the frame placed in
\* model space with the preprocessor's own scale and pads (x = ox * scale +
\* padLeft, y = oy * scale + padTop) is returned by the unpad step ((x -
\* padLeft) / scale, (y - padTop) / scale); the display step multiplies by
\* (displayRatioX, displayRatioY) and dividing by the same ratios undoes it.
C18_CoordinateRoundTrip ==
  probe.computed =>
    /\ RatEq(probe.unpad[1], <<probe.point[1], 1>>)
    /\ RatEq(probe.unpad[2], <<probe.point[2], 1>>)
    /\ RatEq(probe.display[1], RatMul(probe.unpad[1], probe.displayRatio[1]))
    /\ RatEq(probe.display[2], RatMul(probe.unpad[2], probe.displayRatio[2]))
    /\ RatEq(RatDiv(probe.display[1], probe.displayRatio[1]), probe.unpad[1])
    /\ RatEq(RatDiv(probe.display[2], probe.displayRatio[2]), probe.unpad[2])

\* a 1280 x 720 frame: the point (426, 240) lies at (213, 260) in model space
C18_Witness ==
  /\ probe.computed
  /\ frameShape = <<720, 1280>>
  /\ probe.point = <<426, 240>>
  /\ probe.displayRatio = << <<3, 2>>, <<1, 2>> >>
  /\ probe.model = << <<213, 1>>, <<260, 1>> >>
  /\ probe.unpad = << <<426, 1>>, <<240, 1>> >>
  /\ probe.display = << <<639, 1>>, <<120, 1>> >>

\* C19: in the detection list one cycle produces no two boxes have IoU >=
\* 0.45, whatever their classes: a box of one class can suppress a box of
\* another class.
C19_NoOverlapAmongDetections ==
  nmsDetections.computed =>
    \A i, j \in DOMAIN nmsDetections.detections :
      i < j => ~IouAtLeast(nmsDetections.detections[i].box,
                           nmsDetections.detections[j].box, 45)

\* a box of class 2 suppressed by an overlapping box of class 0
C19_Witness ==
  /\ nmsDetections.computed
  /\ anchors = << [cx |-> 10, cy |-> 10, w |-> 20, h |-> 20, scores |-> <<82, 10, 10>>],
                  [cx |-> 17, cy |-> 10, w |-> 20, h |-> 20, scores |-> <<10, 10, 82>>] >>
  /\ candidates = << [box |-> <<0, 0, 40, 40>>, score |-> 82, class |-> 0],
                     [box |-> <<0, 14, 40, 54>>, score |-> 82, class |-> 2] >>
  /\ nmsDetections.detections =
       << [box |-> <<0, 0, 40, 40>>, score |-> 82, class |-> 0] >>

\* C20: no candidate with a score below the confidence threshold 0.4 appears
\* among the detections of a cycle: every detection is a candidate with score
\* >= 0.4.
C20_NoLowScoreDetection ==
  nmsDetections.computed =>
    \A k \in DOMAIN nmsDetections.detections :
      LET d == nmsDetections.detections[k]
      IN /\ d.score >= 40
         /\ \E i \in DOMAIN candidates :
              /\ candidates[i].score = d.score
              /\ candidates[i].class = d.class
              /\ candidates[i].box = <<d.box[2], d.box[1], d.box[4], d.box[3]>>

\* a candidate scored 0.39 dropped next to one that is kept
C20_Witness ==
  /\ nmsDetections.computed
  /\ candidates = << [box |-> <<0, 0, 40, 40>>, score |-> 39, class |-> 0],
                     [box |-> <<1, 23, 39, 65>>, score |-> 82, class |-> 0] >>
  /\ nmsDetections.detections =
       << [box |-> <<23, 1, 65, 39>>, score |-> 82, class |-> 0] >>

\* C21: the suppression is idempotent: run on its own output (the candidates
\* of the cycle's detections, in their order) with confidence 0.4, IoU 0.45
\* and at most 100 kept, it returns the same candidates in the same order.
C21_NmsIdempotent ==
  nmsDetections.computed =>
    LET output == [k \in DOMAIN nmsDetections.detections |->
                     LET d == nmsDetections.detections[k]
                     IN [box |-> <<d.box[2], d.box[1], d.box[4], d.box[3]>>,
                         score |-> d.score, class |-> d.class]]
    IN /\ nms(output) = [k \in DOMAIN output |-> k]
       /\ FormatDetections(output, nms(output)) = nmsDetections.detections

\* two candidates of different scores kept out of three given in another order
C21_Witness ==
  /\ nmsDetections.computed
  /\ Len(candidates) = 3
  /\ nmsDetections.nms = <<3, 1>>
  /\ nmsDetections.detections =
       << [box |-> <<0, 0, 40, 40>>, score |-> 82, class |-> 0],
          [box |-> <<23, 1, 65, 39>>, score |-> 60, class |-> 0] >>

C22_OneDetectionSetPerCycle ==
  [][LET applied == lastEvent' \in {"applied", "postProcessError"}
         matches == { i \in DOMAIN previousDetections' :
                        includes(toLowerCase(className(previousDetections'[i].class)),
                                 keyword) }
     IN /\ Len(inflight') > Len(inflight) =>
             lastEvent' = "cycleStart" /\ Len(inflight') = Len(inflight) + 1
        /\ Len(inflight') < Len(inflight) =>
             /\ Len(inflight') = Len(inflight) - 1
             /\ applied \/ lastEvent' = "inferenceError"
        /\ applied =>
             /\ Len(inflight') = Len(inflight) - 1
             /\ detectionStats'.shown
             /\ detectionStats'.totalCount = Len(previousDetections')
             /\ detectionStats'.keywordCount =
                  (IF keyword = <<>> THEN 0 ELSE Cardinality(matches))
             /\ detectionStats'.keywordCount >= 0
             /\ detectionStats'.keywordCount <= detectionStats'.totalCount
        /\ (~applied /\ lastEvent' # "stop") => UNCHANGED detectionStats]_vars

\* two detections applied, one of them a car, with the keyword "car"
C22_Witness ==
  /\ lastEvent = "applied"
  /\ keyword = <<"c", "a", "r">>
  /\ detectionStats = [shown |-> TRUE, totalCount |-> 2, keywordCount |-> 1,
                       keywordLine |-> TRUE]

C27_TrackerNeverRaises ==
  matchResult.computed => ~matchResult.raised

\* C24: after each applied cycle previousDetections is the reduced snapshot
\* {id, class, box} of exactly that cycle's detections, in the same order and
\* with the same length: records of the cycle before that found no match are
\* gone and nothing older than one generation is kept.
C24_OneGenerationSnapshot ==
  lastEvent \in {"applied", "postProcessError"} =>
    /\ Len(previousDetections) = Len(lastApplied)
    /\ \A i \in DOMAIN previousDetections :
         /\ DOMAIN previousDetections[i] = {"id", "class", "box"}
         /\ previousDetections[i].id # NoId
         /\ previousDetections[i].class = lastApplied[i].class
         /\ previousDetections[i].box = lastApplied[i].box

\* a cycle with one detection applied after a cycle whose detection it does
\* not continue
C24_Witness ==
  /\ lastEvent = "applied"
  /\ Len(lastApplied) = 1
  /\ Len(previousDetections) = 1
  /\ retiredIds # {}
  /\ previousDetections[1].id \notin retiredIds

\* C25: every processFrame call that opens a TensorFlow memory scope closes
\* its own scope once on every exit path: between tasks the open scopes are
\* exactly the scopes of the cycles still in flight, in the order they were
\* opened; no scope of an ended cycle is still open and no cycle in flight
\* has lost its scope to another cycle.
C25_ScopesBelongToCyclesInFlight ==
  scopeStack = [i \in DOMAIN inflight |-> inflight[i].scope]

\* C26: within one cycle the inference call is the only point at which
\* control is yielded: once the inference of a cycle has completed, the next
\* task handled is the end of such a cycle (its results applied, or its
\* failure handled); no tick, stop, start or visibility change comes between.
C26_InferenceIsTheOnlyYield ==
  [][(\E i \in DOMAIN inflight : inflight[i].pc = "nms") =>
       \E i \in DOMAIN inflight :
         inflight[i].pc = "nms" /\ inflight' = Remove(inflight, i)]_vars

\* C29: button state follows detection state in every reachable state: the
\* start button is disabled whenever detection is running or no video is
\* available, and the stop button is enabled only while detection is running.
C29_ButtonsFollowDetection ==
  /\ (isDetectionRunning \/ video = "none") => startDisabled
  /\ ~stopDisabled => isDetectionRunning

\* C30: at any time at most one detectionLoop animation-frame callback is
\* pending: neither a stop followed by a start nor a hide followed by a show
\* leaves two callbacks requested for the next frame or two callbacks to run
\* in the current one.
C30_OneLoopCallbackPending ==
  rafPending + batch <= 1

\* C31: within the detections of a single applied cycle all ids are pairwise
\* distinct: no two detections carry the id of the same previous record, and
\* no synthesized id equals another id of the same cycle.
C31_IdsDistinctWithinCycle ==
  \A i, j \in DOMAIN previousDetections :
    i # j => previousDetections[i].id # previousDetections[j].id

\* C32: cycle results are applied in the order the cycles were started: the
\* cycle whose results are applied started later than the cycle whose results
\* were applied before it.
C32_AppliedInStartOrder ==
  [][(appliedScope' # appliedScope /\ appliedScope' # -1) =>
       appliedScope' > appliedScope]_vars

\* C33: a cycle whose post-processing fails is still applied, as an empty
\* detection set: after it previousDetections is empty and every box is
\* unregistered, so every identity tracked before the failure ends: in the
\* next successful cycle no detection carries an id that was tracked when the
\* failure came.
C33_FailureEndsIdentities ==
  [][/\ lastEvent' = "postProcessError" =>
          previousDetections' = <<>> /\ boxElements' = {}
     /\ lastEvent' = "applied" =>
          IdsOf(previousDetections') \cap idsBeforeFailure = {}]_vars

\* C34: after each updateDetectionBoxes call the set of keys of the box
\* registry equals the set of ids of that cycle's detections: the box of
\* every id that vanished is unregistered and every current id has its
\* registered box.
C34_RegistryKeysAreCurrentIds ==
  lastEvent \in {"applied", "postProcessError"} =>
    boxElements = IdsOf(previousDetections)

\* two detections registered after an earlier id of the session vanished
C34_Witness ==
  /\ lastEvent = "applied"
  /\ Len(previousDetections) = 2
  /\ Cardinality(boxElements) = 2
  /\ retiredIds # {}
  /\ retiredIds \cap boxElements = {}
  /\ boxElements = IdsOf(previousDetections)

\* C35: every box element registered in the box registry is attached to the
\* boxes container: neither the delayed container clear scheduled by
\* stopDetection nor the delayed removals of vanished boxes detaches a box
\* that a later startDetection or cycle has registered.
C35_RegisteredBoxesAttached ==
  \A id \in DOMAIN boxElementOf : boxElementOf[id] \in boxesChildren

====
